---- MODULE Spec2Model ----
(***************************************************************************)
(* apple-ecocide: category selection (select_categories) and output        *)
(* assembly (build_output) of the Little Snitch rule generator.            *)
(*                                                                         *)
(* Text that the code inspects character by character (slugs, patterns,    *)
(* notes) is a sequence of one-character strings; text that the code only  *)
(* copies (process paths, domains) is an atomic string.  Option<T> is a    *)
(* sequence of length 0 (None) or 1 (Some(v)).                             *)
(***************************************************************************)
EXTENDS Integers, Sequences, FiniteSets

VARIABLES categories, params, selection, output, pc, call, ret

vars == <<categories, params, selection, output, pc, call, ret>>

(***************************************************************************)
(* Bounds of the model.                                                    *)
(***************************************************************************)
MaxCats == 2
MaxRules == 3

None == <<>>
Some(v) == <<v>>

(***************************************************************************)
(* Mode and Severity                                                       *)
(***************************************************************************)
Modes == {"Block", "Allow"}

Severities == {"Minimal", "Recommended", "Aggressive"}

\* #[derive(PartialOrd, Ord)] orders the variants by declaration order.
SeverityOrd(s) ==
    CASE s = "Minimal" -> 0
      [] s = "Recommended" -> 1
      [] s = "Aggressive" -> 2

ModeAsStr(m) == IF m = "Block" THEN "block" ELSE "allow"

SeverityAsStr(s) ==
    CASE s = "Minimal" -> "minimal"
      [] s = "Recommended" -> "recommended"
      [] s = "Aggressive" -> "aggressive"

(***************************************************************************)
(* Characters: the byte order Rust's char and str comparisons use.         *)
(***************************************************************************)
CharCode(c) ==
    CASE c = " " -> 32
      [] c = "!" -> 33
      [] c = "*" -> 42
      [] c = "-" -> 45
      [] c = "?" -> 63
      [] c = "[" -> 91
      [] c = "]" -> 93
      [] c = "a" -> 97
      [] c = "g" -> 103
      [] c = "m" -> 109
      [] c = "n" -> 110
      [] c = "s" -> 115
      [] c = "t" -> 116
      [] c = "x" -> 120

\* str::cmp: lexicographic by bytes, a proper prefix sorts first.
RECURSIVE StrLess(_, _)
StrLess(a, b) ==
    IF b = <<>> THEN FALSE
    ELSE IF a = <<>> THEN TRUE
    ELSE IF Head(a) /= Head(b) THEN CharCode(Head(a)) < CharCode(Head(b))
    ELSE StrLess(Tail(a), Tail(b))

(***************************************************************************)
(* glob::Pattern, as matches_pattern uses it (Pattern::new, then matches   *)
(* with the default MatchOptions).  Slugs hold no path separator, so a     *)
(* recursive wildcard is valid only as the whole pattern; it then skips    *)
(* to the end of the text, there being no separator to stop at.            *)
(***************************************************************************)
Token(t, c, cs) == [t |-> t, c |-> c, cs |-> cs]

GlobError == <<Token("Error", "", {})>>

\* Position of the first "]" at or after index from, 0 if there is none.
RECURSIVE FindClose(_, _)
FindClose(p, from) ==
    IF from > Len(p) THEN 0
    ELSE IF p[from] = "]" THEN from
    ELSE FindClose(p, from + 1)

\* parse_char_specifiers: "a-t" is a range, any other character is itself.
RECURSIVE CharSpecifiers(_)
CharSpecifiers(s) ==
    IF s = <<>> THEN {}
    ELSE IF Len(s) >= 3 /\ s[2] = "-"
         THEN {<<s[1], s[3]>>} \cup CharSpecifiers(SubSeq(s, 4, Len(s)))
         ELSE {<<s[1], s[1]>>} \cup CharSpecifiers(Tail(s))

InCharSpecifiers(cs, c) ==
    \E r \in cs : CharCode(c) >= CharCode(r[1]) /\ CharCode(c) <= CharCode(r[2])

RECURSIVE CountStars(_, _)
CountStars(p, i) ==
    IF i <= Len(p) /\ p[i] = "*" THEN 1 + CountStars(p, i + 1) ELSE 0

\* Pattern::new from index i on: the tokens, or GlobError.
RECURSIVE GlobTokens(_, _)
GlobTokens(p, i) ==
    IF i > Len(p) THEN <<>>
    ELSE IF p[i] = "?" THEN
        LET rest == GlobTokens(p, i + 1)
        IN  IF rest = GlobError THEN GlobError
            ELSE <<Token("AnyChar", "", {})>> \o rest
    ELSE IF p[i] = "*" THEN
        LET count == CountStars(p, i)
            j == i + count
        IN  IF count > 2 THEN GlobError
            ELSE IF count = 2 THEN
                \* "**" must be a whole path component; without separators
                \* that is the whole pattern.
                IF i = 1 /\ j > Len(p)
                THEN <<Token("AnyRecursiveSequence", "", {})>>
                ELSE GlobError
            ELSE LET rest == GlobTokens(p, j)
                 IN  IF rest = GlobError THEN GlobError
                     ELSE <<Token("AnySequence", "", {})>> \o rest
    ELSE IF p[i] = "[" THEN
        IF i + 3 <= Len(p) /\ p[i + 1] = "!" THEN
            LET k == FindClose(p, i + 3)
            IN  IF k = 0 THEN GlobError
                ELSE LET rest == GlobTokens(p, k + 1)
                     IN  IF rest = GlobError THEN GlobError
                         ELSE <<Token("AnyExcept", "",
                                      CharSpecifiers(SubSeq(p, i + 2, k - 1)))>>
                              \o rest
        ELSE IF i + 2 <= Len(p) /\ p[i + 1] /= "!" THEN
            LET k == FindClose(p, i + 2)
            IN  IF k = 0 THEN GlobError
                ELSE LET rest == GlobTokens(p, k + 1)
                     IN  IF rest = GlobError THEN GlobError
                         ELSE <<Token("AnyWithin", "",
                                      CharSpecifiers(SubSeq(p, i + 1, k - 1)))>>
                              \o rest
        ELSE GlobError
    ELSE
        LET rest == GlobTokens(p, i + 1)
        IN  IF rest = GlobError THEN GlobError
            ELSE <<Token("Char", p[i], {})>> \o rest

\* Pattern::matches_from: tokens from ti on against the text from si on.
RECURSIVE GlobMatchesFrom(_, _, _, _)
GlobMatchesFrom(toks, ti, s, si) ==
    IF ti > Len(toks) THEN si > Len(s)
    ELSE LET tok == toks[ti]
         IN  CASE tok.t = "AnySequence" ->
                    \E k \in si..(Len(s) + 1) : GlobMatchesFrom(toks, ti + 1, s, k)
               [] tok.t = "AnyRecursiveSequence" ->
                    \/ GlobMatchesFrom(toks, ti + 1, s, si)
                    \/ GlobMatchesFrom(toks, ti + 1, s, Len(s) + 1)
               [] OTHER ->
                    /\ si <= Len(s)
                    /\ CASE tok.t = "AnyChar" -> TRUE
                         [] tok.t = "AnyWithin" -> InCharSpecifiers(tok.cs, s[si])
                         [] tok.t = "AnyExcept" -> ~InCharSpecifiers(tok.cs, s[si])
                         [] tok.t = "Char" -> s[si] = tok.c
                    /\ GlobMatchesFrom(toks, ti + 1, s, si + 1)

GlobMatches(pattern, slug) ==
    LET toks == GlobTokens(pattern, 1)
    IN  toks /= GlobError /\ GlobMatchesFrom(toks, 1, slug, 1)

HasGlobChar(pattern) ==
    \E i \in 1..Len(pattern) : pattern[i] \in {"*", "?", "["}

\* Mutant: a pattern Pattern::new rejects is compared as plain text.
matches_pattern_LiteralFallback(slug, pattern) ==
    IF HasGlobChar(pattern) /\ GlobTokens(pattern, 1) /= GlobError
    THEN GlobMatches(pattern, slug)
    ELSE pattern = slug

\* matches_pattern
matches_pattern(slug, pattern) ==
    IF HasGlobChar(pattern) THEN GlobMatches(pattern, slug) ELSE pattern = slug

\* matches_any_pattern
matches_any_pattern(slug, patterns) ==
    \E i \in 1..Len(patterns) : matches_pattern(slug, patterns[i])

(***************************************************************************)
(* Data: Category, CategoryRule, GenerateParams, CategorySelection, LsRule *)
(***************************************************************************)
CategoryRule(notes, domains, deny_process) ==
    [notes |-> notes, domains |-> domains, deny_process |-> deny_process]

Category(severity, rules) == [severity |-> severity, rules |-> rules]

\* One element of the Vec<(String, Category)> the loaders return.
Entry(slug, category) == [slug |-> slug, category |-> category]

GenerateParams(mode, severity, include, exclude, all, name) ==
    [mode |-> mode, severity |-> severity, include |-> include,
     exclude |-> exclude, all |-> all, name |-> name]

CategorySelection(denied, allowed) == [denied |-> denied, allowed |-> allowed]

\* #[derive(Default)] of CategorySelection: two empty sets.
DefaultSelection == CategorySelection({}, {})

LsRule(action, priority, process, remote_domains, remote, protocol, disabled, notes) ==
    [action |-> action, priority |-> priority, process |-> process,
     remote_domains |-> remote_domains, remote |-> remote,
     protocol |-> protocol, disabled |-> disabled, notes |-> notes]

(***************************************************************************)
(* select_categories                                                       *)
(***************************************************************************)
\* Mutant: the threshold itself is left out (< for <=).
within_severity_Strict(p, cat) ==
    SeverityOrd(cat.severity) < SeverityOrd(p.severity)

within_severity(p, cat) == SeverityOrd(cat.severity) <= SeverityOrd(p.severity)

\* Mutant: any exclude list excludes every slug (the match is forgotten).
is_excluded_AnyList(p, slug) == p.exclude /= <<>>

is_excluded(p, slug) == p.exclude /= <<>> /\ matches_any_pattern(slug, p.exclude)

\* Block with --all or without includes: a filter over the categories.
SelectBlockAll(p, cats) ==
    CategorySelection(
        {cats[i].slug : i \in {k \in 1..Len(cats) :
            within_severity(p, cats[k].category) /\ ~is_excluded(p, cats[k].slug)}},
        {})

\* Mutant: the exclude patterns are not consulted for an included category.
RECURSIVE SelectBlockInclude_NoExclude(_, _, _)
SelectBlockInclude_NoExclude(p, cats, sel) ==
    IF cats = <<>> THEN sel
    ELSE LET slug == Head(cats).slug
             cat == Head(cats).category
             next ==
                 IF matches_any_pattern(slug, p.include)
                 THEN IF SeverityOrd(cat.severity) <= SeverityOrd(p.severity)
                      THEN [sel EXCEPT !.denied = @ \cup {slug}]
                      ELSE sel
                 ELSE sel
         IN  SelectBlockInclude_NoExclude(p, Tail(cats), next)

\* Block with --include: the loop over the categories, from the first on.
RECURSIVE SelectBlockInclude(_, _, _)
SelectBlockInclude(p, cats, sel) ==
    IF cats = <<>> THEN sel
    ELSE LET slug == Head(cats).slug
             cat == Head(cats).category
             next ==
                 IF matches_any_pattern(slug, p.include) /\ ~is_excluded(p, slug)
                 THEN IF within_severity(p, cat)
                      THEN [sel EXCEPT !.denied = @ \cup {slug}]
                      ELSE sel
                 ELSE sel
         IN  SelectBlockInclude(p, Tail(cats), next)

\* Mutant: the deny test is an "if" of its own instead of an "else if".
RECURSIVE SelectAllow_NoElse(_, _, _)
SelectAllow_NoElse(p, cats, sel) ==
    IF cats = <<>> THEN sel
    ELSE LET slug == Head(cats).slug
             cat == Head(cats).category
             allowedNext ==
                 IF matches_any_pattern(slug, p.include)
                 THEN sel.allowed \cup {slug} ELSE sel.allowed
             deniedNext ==
                 IF ~(p.exclude /= <<>> /\ matches_any_pattern(slug, p.exclude))
                 THEN sel.denied \cup {slug} ELSE sel.denied
             next ==
                 IF ~(SeverityOrd(cat.severity) <= SeverityOrd(p.severity)) THEN sel
                 ELSE CategorySelection(deniedNext, allowedNext)
         IN  SelectAllow_NoElse(p, Tail(cats), next)

\* Mutant: an exclude pattern wins over an include pattern.
RECURSIVE SelectAllow_ExcludeFirst(_, _, _)
SelectAllow_ExcludeFirst(p, cats, sel) ==
    IF cats = <<>> THEN sel
    ELSE LET slug == Head(cats).slug
             cat == Head(cats).category
             next ==
                 IF ~(SeverityOrd(cat.severity) <= SeverityOrd(p.severity)) THEN sel
                 ELSE IF p.exclude /= <<>> /\ matches_any_pattern(slug, p.exclude)
                      THEN sel
                 ELSE IF matches_any_pattern(slug, p.include)
                      THEN [sel EXCEPT !.allowed = @ \cup {slug}]
                 ELSE [sel EXCEPT !.denied = @ \cup {slug}]
         IN  SelectAllow_ExcludeFirst(p, Tail(cats), next)

\* Allow mode: the loop over the categories, from the first on.
RECURSIVE SelectAllow(_, _, _)
SelectAllow(p, cats, sel) ==
    IF cats = <<>> THEN sel
    ELSE LET slug == Head(cats).slug
             cat == Head(cats).category
             next ==
                 IF ~within_severity(p, cat) THEN sel
                 ELSE IF matches_any_pattern(slug, p.include)
                      THEN [sel EXCEPT !.allowed = @ \cup {slug}]
                 ELSE IF ~is_excluded(p, slug)
                      THEN [sel EXCEPT !.denied = @ \cup {slug}]
                 ELSE sel
         IN  SelectAllow(p, Tail(cats), next)

\* Mutant: the all flag is not part of the dispatch.
select_categories_IgnoreAll(p, cats) ==
    IF p.mode = "Block" /\ p.include = <<>>
    THEN SelectBlockAll(p, cats)
    ELSE IF p.mode = "Block"
    THEN SelectBlockInclude(p, cats, DefaultSelection)
    ELSE SelectAllow(p, cats, DefaultSelection)

select_categories(p, cats) ==
    IF p.mode = "Block" /\ (p.include = <<>> \/ p.all)
    THEN SelectBlockAll(p, cats)
    ELSE IF p.mode = "Block"
    THEN SelectBlockInclude(p, cats, DefaultSelection)
    ELSE SelectAllow(p, cats, DefaultSelection)

(***************************************************************************)
(* build_output and build_description                                      *)
(***************************************************************************)
\* Mutant: the slug prefix is left out of the notes.
FormatNotes_NoSlug(slug, notes) == notes

\* format!("[{}] {}", slug, rule.notes)
FormatNotes(slug, notes) == <<"[">> \o slug \o <<"]", " ">> \o notes

\* The inner loop of pass 1: one rule per CategoryRule whose deny_process is Some.
RECURSIVE ProcessDenyRules(_, _)
ProcessDenyRules(slug, rules) ==
    IF rules = <<>> THEN <<>>
    ELSE LET rule == Head(rules)
         IN  (IF rule.deny_process /= None
              THEN <<LsRule("deny", Some("high"), rule.deny_process[1], <<>>,
                            Some("any"), Some("any"), None,
                            FormatNotes(slug, rule.notes))>>
              ELSE <<>>)
             \o ProcessDenyRules(slug, Tail(rules))

\* Mutant: a rule is emitted for an empty domain list too.
RECURSIVE DomainRules_NoEmptyCheck(_, _, _, _)
DomainRules_NoEmptyCheck(slug, rules, action, disabled) ==
    IF rules = <<>> THEN <<>>
    ELSE <<LsRule(action, None, "any", Head(rules).domains, None, None,
                  disabled, FormatNotes(slug, Head(rules).notes))>>
         \o DomainRules_NoEmptyCheck(slug, Tail(rules), action, disabled)

\* The inner loop of passes 2 and 3: one rule per CategoryRule with domains.
RECURSIVE DomainRules(_, _, _, _)
DomainRules(slug, rules, action, disabled) ==
    IF rules = <<>> THEN <<>>
    ELSE LET rule == Head(rules)
         IN  (IF rule.domains /= <<>>
              THEN <<LsRule(action, None, "any", rule.domains, None, None,
                            disabled, FormatNotes(slug, rule.notes))>>
              ELSE <<>>)
             \o DomainRules(slug, Tail(rules), action, disabled)

\* Mutant: pass 1 runs over every selected category, allowed ones included.
RECURSIVE ProcessDenyPass_AllSelected(_, _)
ProcessDenyPass_AllSelected(cats, sel) ==
    IF cats = <<>> THEN <<>>
    ELSE (IF Head(cats).slug \in sel.denied \cup sel.allowed
          THEN ProcessDenyRules(Head(cats).slug, Head(cats).category.rules)
          ELSE <<>>)
         \o ProcessDenyPass_AllSelected(Tail(cats), sel)

\* 1. Process-based deny rules, over the denied categories in list order.
RECURSIVE ProcessDenyPass(_, _)
ProcessDenyPass(cats, sel) ==
    IF cats = <<>> THEN <<>>
    ELSE (IF Head(cats).slug \in sel.denied
          THEN ProcessDenyRules(Head(cats).slug, Head(cats).category.rules)
          ELSE <<>>)
         \o ProcessDenyPass(Tail(cats), sel)

\* 2. Domain-based deny rules, over the denied categories in list order.
RECURSIVE DomainDenyPass(_, _)
DomainDenyPass(cats, sel) ==
    IF cats = <<>> THEN <<>>
    ELSE (IF Head(cats).slug \in sel.denied
          THEN DomainRules(Head(cats).slug, Head(cats).category.rules, "deny", None)
          ELSE <<>>)
         \o DomainDenyPass(Tail(cats), sel)

\* 3. Allow rules, over the allowed categories in list order.
RECURSIVE DomainAllowPass(_, _)
DomainAllowPass(cats, sel) ==
    IF cats = <<>> THEN <<>>
    ELSE (IF Head(cats).slug \in sel.allowed
          THEN DomainRules(Head(cats).slug, Head(cats).category.rules, "allow",
                           Some(FALSE))
          ELSE <<>>)
         \o DomainAllowPass(Tail(cats), sel)

\* Mutant: one loop over the categories that emits all of a category's rules
\* before it goes on to the next category.
RECURSIVE BuildRules_PerCategory(_, _)
BuildRules_PerCategory(cats, sel) ==
    IF cats = <<>> THEN <<>>
    ELSE LET slug == Head(cats).slug
             rules == Head(cats).category.rules
         IN  (IF slug \in sel.denied
              THEN ProcessDenyRules(slug, rules)
                   \o DomainRules(slug, rules, "deny", None)
              ELSE <<>>)
             \o (IF slug \in sel.allowed
                 THEN DomainRules(slug, rules, "allow", Some(FALSE))
                 ELSE <<>>)
             \o BuildRules_PerCategory(Tail(cats), sel)

\* The rules vector after the three loops.
BuildRules(cats, sel) ==
    ProcessDenyPass(cats, sel) \o DomainDenyPass(cats, sel) \o DomainAllowPass(cats, sel)

\* Vec::sort of the slugs of a set.
RECURSIVE SortedSlugs(_)
SortedSlugs(S) ==
    IF S = {} THEN <<>>
    ELSE LET least == CHOOSE x \in S : \A y \in S \ {x} : StrLess(x, y)
         IN  <<least>> \o SortedSlugs(S \ {least})

\* [&str]::join(", ")
RECURSIVE JoinSlugs(_)
JoinSlugs(slugs) ==
    IF slugs = <<>> THEN <<>>
    ELSE IF Len(slugs) = 1 THEN slugs[1]
    ELSE slugs[1] \o <<",", " ">> \o JoinSlugs(Tail(slugs))

Digit(d) ==
    CASE d = 0 -> "0" [] d = 1 -> "1" [] d = 2 -> "2" [] d = 3 -> "3"
      [] d = 4 -> "4" [] d = 5 -> "5" [] d = 6 -> "6" [] d = 7 -> "7"
      [] d = 8 -> "8" [] d = 9 -> "9"

\* Display of a usize.
RECURSIVE Decimal(_)
Decimal(n) ==
    IF n < 10 THEN <<Digit(n)>> ELSE Decimal(n \div 10) \o <<Digit(n % 10)>>

\* Mutant: the Allowed clause is written whether or not a slug is allowed.
build_description_AlwaysAllowed(p, sel) ==
    LET denied == SortedSlugs(sel.denied)
        allowed == SortedSlugs(sel.allowed)
    IN  <<"Generated by apple-ecocide v", "CARGO_PKG_VERSION", ".",
          " Mode: ", ModeAsStr(p.mode), ".",
          " Severity: ", SeverityAsStr(p.severity), ".">>
        \o <<" Allowed (">> \o Decimal(Len(allowed)) \o <<"): ">>
        \o JoinSlugs(allowed) \o <<".">>
        \o <<" Denied (">> \o Decimal(Len(denied)) \o <<"): ">>
        \o JoinSlugs(denied)

\* build_description: the words of the format string are single elements,
\* its periods, and the interpolated slugs and counts, are characters.
build_description(p, sel) ==
    LET denied == SortedSlugs(sel.denied)
        allowed == SortedSlugs(sel.allowed)
        header == <<"Generated by apple-ecocide v", "CARGO_PKG_VERSION", ".",
                    " Mode: ", ModeAsStr(p.mode), ".",
                    " Severity: ", SeverityAsStr(p.severity), ".">>
    IN  IF allowed = <<>>
        THEN header
             \o <<" Denied (">> \o Decimal(Len(denied)) \o <<"): ">>
             \o JoinSlugs(denied)
        ELSE header
             \o <<" Allowed (">> \o Decimal(Len(allowed)) \o <<"): ">>
             \o JoinSlugs(allowed) \o <<".">>
             \o <<" Denied (">> \o Decimal(Len(denied)) \o <<"): ">>
             \o JoinSlugs(denied)

build_output(p, cats, sel) ==
    [name |-> IF p.name = None THEN "Apple Ecocide" ELSE p.name[1],
     description |-> build_description(p, sel),
     rules |-> BuildRules(cats, sel)]

(***************************************************************************)
(* What an entry point hands back                                          *)
(***************************************************************************)
\* serde_json::to_string_pretty of an LsRule: the fields in declaration
\* order, the ones marked skip_serializing_if left out when absent or empty.
SerializeRule(r) ==
    <<<<"action", r.action>>>>
    \o (IF r.priority = None THEN <<>> ELSE <<<<"priority", r.priority[1]>>>>)
    \o <<<<"process", r.process>>>>
    \o (IF r.remote_domains = <<>> THEN <<>>
        ELSE <<<<"remote-domains", r.remote_domains>>>>)
    \o (IF r.remote = None THEN <<>> ELSE <<<<"remote", r.remote[1]>>>>)
    \o (IF r.protocol = None THEN <<>> ELSE <<<<"protocol", r.protocol[1]>>>>)
    \o (IF r.disabled = None THEN <<>> ELSE <<<<"disabled", r.disabled[1]>>>>)
    \o <<<<"notes", r.notes>>>>

\* serde_json::to_string_pretty of an LsRulesOutput.
Serialize(out) ==
    [name |-> out.name,
     description |-> out.description,
     rules |-> [k \in 1..Len(out.rules) |-> SerializeRule(out.rules[k])]]

\* The entry points of a generation run over given parameters.
RunEntries == {"main", "generate_rules_json"}

Call(entry, args) == [entry |-> entry, args |-> args]

Return(status, message, json) ==
    [status |-> status, message |-> message, json |-> json]

\* Mutant: the error is raised when either set is empty (|| for &&).
NothingSelected_Either(sel) == sel.denied = {} \/ sel.allowed = {}

\* selection.denied.is_empty() && selection.allowed.is_empty()
NothingSelected(sel) == sel.denied = {} /\ sel.allowed = {}

\* main prints to stderr and exits with status 1; generate_rules_json and
\* the WASM generate_rules return Err(message).
NoCategoriesReturn(entry) ==
    IF entry = "main"
    THEN Return("exit 1",
                "No categories selected. Use --include or --all to select categories.",
                None)
    ELSE IF entry = "generate_rules"
    THEN Return("Err",
                "No categories selected. Check your include/exclude patterns.",
                None)
    ELSE Return("Err",
                "No categories selected. Use include patterns or enable 'all'.",
                None)

\* main writes the JSON to the output file and returns Ok(());
\* generate_rules_json and generate_rules return Ok(json).
GeneratedReturn(entry, out) ==
    Return(IF entry = "main" THEN "exit 0" ELSE "Ok", "", Some(Serialize(out)))

(***************************************************************************)
(* Inputs                                                                  *)
(***************************************************************************)
AppleTelemetry == <<"a", "-", "t">>
GoogleTelemetry == <<"g", "-", "t">>
AppleAppstore == <<"a", "-", "s">>

SlugPool == {AppleTelemetry, GoogleTelemetry, AppleAppstore}

AnyTelemetry == <<"*", "-", "t">>
AnyApple == <<"a", "-", "?">>
UnclosedRange == <<"[", "a">>

\* The include and the exclude lists: none, an exact pattern, two globs of
\* which the second overlaps both other patterns, a glob that does not
\* compile, and a list of two with a pattern after the one that does not
\* compile.
PatternLists ==
    {<<>>, <<AppleAppstore>>, <<AnyTelemetry>>, <<AnyApple>>, <<UnclosedRange>>,
     <<UnclosedRange, GoogleTelemetry>>}

SeqsUpTo(S, n) == UNION {[1..k -> S] : k \in 0..n}

ProcessOnlyRule == CategoryRule(<<"n">>, <<>>, Some("/usr/libexec/telemetryd"))
DomainOnlyRule == CategoryRule(<<"n">>, <<"d1.example">>, None)
ProcessAndDomainRule ==
    CategoryRule(<<"m">>, <<"d2.example", "d1.example">>, Some("/usr/bin/x"))
InertRule == CategoryRule(<<"m">>, <<>>, None)
EmptyProcessRule == CategoryRule(<<"m">>, <<>>, Some(""))

RulePool ==
    {ProcessOnlyRule, DomainOnlyRule, ProcessAndDomainRule, InertRule,
     EmptyProcessRule}

\* The rules of the spec's scenarios: a process rule for apple-telemetry,
\* a domain rule for each of the other two.
ScenarioRules(slug) ==
    IF slug = AppleTelemetry THEN <<ProcessOnlyRule>> ELSE <<DomainOnlyRule>>

\* The slugs of a loaded category list: unique, and sorted as both loaders
\* leave them (categories.sort_by(|a, b| a.0.cmp(&b.0))).
SlugOrders(n) ==
    {f \in [1..n -> SlugPool] : \A i, j \in 1..n : i < j => StrLess(f[i], f[j])}

\* The rules of all the categories of a list, one after the other, and
\* the index of the last rule of each category in that sequence.
RuleCuts(n, all) ==
    {cut \in [1..n -> 0..Len(all)] :
        /\ \A i \in 1..n : i > 1 => cut[i - 1] <= cut[i]
        /\ n > 0 => cut[n] = Len(all)}

RulesOfCategory(all, cut, i) ==
    SubSeq(all, (IF i = 1 THEN 0 ELSE cut[i - 1]) + 1, cut[i])

ParamsPool ==
    {GenerateParams(m, sev, inc, exc, all, None) :
        m \in Modes, sev \in Severities, inc \in PatternLists,
        exc \in PatternLists, all \in BOOLEAN}

RuleParamsPool ==
    {GenerateParams(m, "Recommended", inc, <<>>, FALSE,
                    IF m = "Allow" THEN Some("My Rules") ELSE None) :
        m \in Modes, inc \in {<<>>, <<AnyApple>>}}

(***************************************************************************)
(* The generation run: main and generate_rules_json call select_categories,*)
(* stop when nothing is selected, and call build_output otherwise.         *)
(***************************************************************************)
\* At most MaxCats categories with unique slugs, sorted by slug, each of
\* any severity and with the rules of the spec's scenarios.
Init ==
    /\ \E n \in 0..MaxCats :
        \E slugs \in SlugOrders(n) :
            \E sevs \in [1..n -> Severities] :
                categories =
                    [i \in 1..n |->
                        Entry(slugs[i], Category(sevs[i], ScenarioRules(slugs[i])))]
    /\ params \in ParamsPool
    /\ selection = DefaultSelection
    /\ output = None
    /\ pc = "start"
    /\ call \in {Call(e, None) : e \in RunEntries}
    /\ ret = None

\* At most MaxCats categories with unique slugs, sorted by slug, of
\* Recommended severity, with at most MaxRules rules in all.
InitRules ==
    /\ \E n \in 0..MaxCats :
        \E slugs \in SlugOrders(n) :
            \E all \in SeqsUpTo(RulePool, IF n = 0 THEN 0 ELSE MaxRules) :
                \E cut \in RuleCuts(n, all) :
                    categories =
                        [i \in 1..n |->
                            Entry(slugs[i],
                                  Category("Recommended",
                                           RulesOfCategory(all, cut, i)))]
    /\ params \in RuleParamsPool
    /\ selection = DefaultSelection
    /\ output = None
    /\ pc = "start"
    /\ call = Call("generate_rules_json", None)
    /\ ret = None

SelectCategories ==
    /\ pc = "start"
    /\ selection' = select_categories(params, categories)
    /\ pc' = "selected"
    /\ UNCHANGED <<categories, params, output, call, ret>>

NoCategoriesSelected ==
    /\ pc = "selected"
    /\ NothingSelected(selection)
    /\ ret' = Some(NoCategoriesReturn(call.entry))
    /\ pc' = "error"
    /\ UNCHANGED <<categories, params, selection, output, call>>

BuildOutput ==
    /\ pc = "selected"
    /\ ~NothingSelected(selection)
    /\ output' = Some(build_output(params, categories, selection))
    /\ ret' = Some(GeneratedReturn(call.entry, output'[1]))
    /\ pc' = "done"
    /\ UNCHANGED <<categories, params, selection, call>>

Next == SelectCategories \/ NoCategoriesSelected \/ BuildOutput

Spec == Init /\ [][Next]_vars

SpecRules == InitRules /\ [][Next]_vars

(***************************************************************************)
(* The pattern matcher on its own: one call of matches_pattern or of       *)
(* matches_any_pattern on a slug and patterns of every kind, valid and     *)
(* invalid.                                                                *)
(***************************************************************************)
MaxPatterns == 2

\* #[derive(Default)] of GenerateParams.
DefaultParams == GenerateParams("Block", "Recommended", <<>>, <<>>, FALSE, None)

TripleStar == <<"*", "*", "*">>
InnerRecursive == <<"a", "*", "*">>
RecursiveAll == <<"*", "*">>
AppleToGoogle == <<"[", "a", "-", "g", "]", "-", "t">>
NotApple == <<"[", "!", "a", "]", "-", "t">>
EmptyText == <<>>

\* Patterns Pattern::new rejects, each for its own reason: an unclosed
\* range, three stars, a recursive wildcard that is not a whole component.
InvalidGlobs == {UnclosedRange, TripleStar, InnerRecursive}

MatchPatterns ==
    {AppleTelemetry, GoogleTelemetry, EmptyText, AnyTelemetry, AnyApple,
     RecursiveAll, AppleToGoogle, NotApple} \cup InvalidGlobs

\* A slug is a file name without its extension: it may be spelled like a
\* pattern.
MatchSlugs == SlugPool \cup {UnclosedRange, EmptyText}

InitMatch ==
    /\ categories = <<>>
    /\ params = DefaultParams
    /\ selection = DefaultSelection
    /\ output = None
    /\ pc = "start"
    /\ \/ \E slug \in MatchSlugs, pattern \in MatchPatterns :
            call = Call("matches_pattern", [slug |-> slug, pattern |-> pattern])
       \/ \E slug \in MatchSlugs, patterns \in SeqsUpTo(MatchPatterns, MaxPatterns) :
            call = Call("matches_any_pattern",
                        [slug |-> slug, patterns |-> patterns])
    /\ ret = None

MatchesPattern ==
    /\ pc = "start"
    /\ call.entry = "matches_pattern"
    /\ ret' = Some(matches_pattern(call.args.slug, call.args.pattern))
    /\ pc' = "returned"
    /\ UNCHANGED <<categories, params, selection, output, call>>

MatchesAnyPattern ==
    /\ pc = "start"
    /\ call.entry = "matches_any_pattern"
    /\ ret' = Some(matches_any_pattern(call.args.slug, call.args.patterns))
    /\ pc' = "returned"
    /\ UNCHANGED <<categories, params, selection, output, call>>

NextMatch == MatchesPattern \/ MatchesAnyPattern

SpecMatch == InitMatch /\ [][NextMatch]_vars

(***************************************************************************)
(* The WASM bindings (wasm.rs): arguments arrive as strings.               *)
(***************************************************************************)
\* str::split(','): the pieces between the commas, empty pieces included.
RECURSIVE SplitComma(_, _)
SplitComma(s, piece) ==
    IF s = <<>> THEN <<piece>>
    ELSE IF Head(s) = "," THEN <<piece>> \o SplitComma(Tail(s), <<>>)
    ELSE SplitComma(Tail(s), Append(piece, Head(s)))

RECURSIVE TrimStart(_)
TrimStart(s) ==
    IF s /= <<>> /\ Head(s) = " " THEN TrimStart(Tail(s)) ELSE s

RECURSIVE TrimEnd(_)
TrimEnd(s) ==
    IF s /= <<>> /\ s[Len(s)] = " "
    THEN TrimEnd(SubSeq(s, 1, Len(s) - 1))
    ELSE s

\* str::trim
Trim(s) == TrimEnd(TrimStart(s))

\* if s.is_empty() { Vec::new() } else { s.split(',').map(trim).collect() }
ParsePatterns(raw) ==
    IF raw = <<>> THEN <<>>
    ELSE LET pieces == SplitComma(raw, <<>>)
         IN  [i \in 1..Len(pieces) |-> Trim(pieces[i])]

\* Mutant: the inner loop has no break, a slug is pushed once for every
\* pattern it matches.
RECURSIVE PushIfMatched_NoBreak(_, _, _, _)
PushIfMatched_NoBreak(matched, slug, patterns, j) ==
    IF j > Len(patterns) THEN matched
    ELSE IF matches_pattern(slug, patterns[j])
         THEN PushIfMatched_NoBreak(Append(matched, slug), slug, patterns, j + 1)
         ELSE PushIfMatched_NoBreak(matched, slug, patterns, j + 1)

\* The inner loop of validate_patterns from pattern j on: push the slug at
\* the first pattern it matches and break.
RECURSIVE PushIfMatched(_, _, _, _)
PushIfMatched(matched, slug, patterns, j) ==
    IF j > Len(patterns) THEN matched
    ELSE IF matches_pattern(slug, patterns[j]) THEN Append(matched, slug)
    ELSE PushIfMatched(matched, slug, patterns, j + 1)

\* The outer loop of validate_patterns from category i on.
RECURSIVE MatchedFrom(_, _, _, _)
MatchedFrom(matched, cats, patterns, i) ==
    IF i > Len(cats) THEN matched
    ELSE MatchedFrom(PushIfMatched(matched, cats[i].slug, patterns, 1),
                     cats, patterns, i + 1)

\* validate_patterns: the object it serializes.
validate_patterns(raw, cats) ==
    LET patterns == ParsePatterns(raw)
        matched == MatchedFrom(<<>>, cats, patterns, 1)
    IN  [valid |-> matched /= <<>> \/ patterns = <<>>, matched |-> matched]

\* What a caller may write between two commas.
RawPieces ==
    {<<>>, <<" ">>, <<"x">>, AppleTelemetry, <<" ">> \o GoogleTelemetry,
     AnyTelemetry \o <<" ">>, AnyApple, UnclosedRange}

RECURSIVE JoinComma(_)
JoinComma(pieces) ==
    IF pieces = <<>> THEN <<>>
    ELSE IF Len(pieces) = 1 THEN pieces[1]
    ELSE pieces[1] \o <<",">> \o JoinComma(Tail(pieces))

RawPatternArgs == {JoinComma(pieces) : pieces \in SeqsUpTo(RawPieces, MaxPatterns)}

InitValidate ==
    /\ \E n \in 0..MaxCats :
        \E slugs \in SlugOrders(n) :
            categories =
                [i \in 1..n |->
                    Entry(slugs[i], Category("Recommended", ScenarioRules(slugs[i])))]
    /\ params = DefaultParams
    /\ selection = DefaultSelection
    /\ output = None
    /\ pc = "start"
    /\ \E raw \in RawPatternArgs :
            call = Call("validate_patterns", [patterns |-> raw])
    /\ ret = None

ValidatePatterns ==
    /\ pc = "start"
    /\ call.entry = "validate_patterns"
    /\ ret' = Some(validate_patterns(call.args.patterns, categories))
    /\ pc' = "returned"
    /\ UNCHANGED <<categories, params, selection, output, call>>

NextValidate == ValidatePatterns

SpecValidate == InitValidate /\ [][NextValidate]_vars

\* char::to_lowercase, on the letters the arguments below are spelled with.
ToLowerChar(c) ==
    CASE c = "A" -> "a" [] c = "B" -> "b" [] c = "C" -> "c" [] c = "E" -> "e"
      [] c = "G" -> "g" [] c = "I" -> "i" [] c = "K" -> "k" [] c = "L" -> "l"
      [] c = "O" -> "o" [] c = "R" -> "r" [] c = "S" -> "s" [] c = "V" -> "v"
      [] c = "W" -> "w"
      [] OTHER -> c

\* str::to_lowercase
ToLowercase(s) == [i \in 1..Len(s) |-> ToLowerChar(s[i])]

\* Mode::from_str
ModeFromStr(s) ==
    LET l == ToLowercase(s)
    IN  IF l = <<"b", "l", "o", "c", "k">> THEN Some("Block")
        ELSE IF l = <<"a", "l", "l", "o", "w">> THEN Some("Allow")
        ELSE None

\* Severity::from_str
SeverityFromStr(s) ==
    LET l == ToLowercase(s)
    IN  IF l = <<"m", "i", "n", "i", "m", "a", "l">> THEN Some("Minimal")
        ELSE IF l = <<"r", "e", "c", "o", "m", "m", "e", "n", "d", "e", "d">> THEN Some("Recommended")
        ELSE IF l = <<"a", "g", "g", "r", "e", "s", "s", "i", "v", "e">> THEN Some("Aggressive")
        ELSE None

\* Option::unwrap_or_default
UnwrapOr(opt, default) == IF opt = None THEN default ELSE opt[1]

\* Mutant: the binding leaves the all flag unset.
WasmParams_AllUnset(args) ==
    GenerateParams(UnwrapOr(ModeFromStr(args.mode), "Block"),
                   UnwrapOr(SeverityFromStr(args.severity), "Recommended"),
                   ParsePatterns(args.include),
                   ParsePatterns(args.exclude),
                   FALSE,
                   IF args.name = "" THEN None ELSE Some(args.name))

\* The GenerateParams generate_rules builds from its five string arguments.
WasmParams(args) ==
    GenerateParams(UnwrapOr(ModeFromStr(args.mode), "Block"),
                   UnwrapOr(SeverityFromStr(args.severity), "Recommended"),
                   ParsePatterns(args.include),
                   ParsePatterns(args.exclude),
                   TRUE,
                   IF args.name = "" THEN None ELSE Some(args.name))

ModeArgs ==
    {<<"b", "l", "o", "c", "k">>, <<"a", "l", "l", "o", "w">>, <<"A", "l", "l", "o", "w">>, <<"d", "e", "n", "y">>, <<>>}

SeverityArgs ==
    {<<"m", "i", "n", "i", "m", "a", "l">>, <<"r", "e", "c", "o", "m", "m", "e", "n", "d", "e", "d">>,
     <<"A", "G", "G", "R", "E", "S", "S", "I", "V", "E">>, <<"h", "i", "g", "h">>}

IncludeArgs ==
    {<<>>, AppleAppstore, AnyTelemetry \o <<",", " ">> \o AppleAppstore,
     AnyApple, UnclosedRange}

ExcludeArgs == {<<>>, AppleAppstore, AnyTelemetry, UnclosedRange \o <<",">>}

NameArgs == {"", "My Rules"}

InitWasm ==
    /\ \E n \in 0..MaxCats :
        \E slugs \in SlugOrders(n) :
            \E sevs \in [1..n -> Severities] :
                categories =
                    [i \in 1..n |->
                        Entry(slugs[i], Category(sevs[i], ScenarioRules(slugs[i])))]
    /\ params = DefaultParams
    /\ selection = DefaultSelection
    /\ output = None
    /\ pc = "call"
    /\ \E mode \in ModeArgs, severity \in SeverityArgs, include \in IncludeArgs,
          exclude \in ExcludeArgs, name \in NameArgs :
            call = Call("generate_rules",
                        [mode |-> mode, severity |-> severity, include |-> include,
                         exclude |-> exclude, name |-> name])
    /\ ret = None

\* generate_rules up to the construction of its GenerateParams.
GenerateRulesParams ==
    /\ pc = "call"
    /\ call.entry = "generate_rules"
    /\ params' = WasmParams(call.args)
    /\ pc' = "start"
    /\ UNCHANGED <<categories, selection, output, call, ret>>

NextWasm ==
    GenerateRulesParams \/ SelectCategories \/ NoCategoriesSelected \/ BuildOutput

SpecWasm == InitWasm /\ [][NextWasm]_vars

(***************************************************************************)
(* Properties of select_categories                                        *)
(***************************************************************************)
Selected == pc \in {"selected", "error", "done"}

CatIndexes == 1..Len(categories)

SlugAt(i) == categories[i].slug

SeverityAt(i) == categories[i].category.severity

WithinThreshold(i) == SeverityOrd(SeverityAt(i)) <= SeverityOrd(params.severity)

MatchesInclude(i) == matches_any_pattern(SlugAt(i), params.include)

MatchesExclude(i) == matches_any_pattern(SlugAt(i), params.exclude)

BlockAllBranch == params.mode = "Block" /\ (params.include = <<>> \/ params.all)

BlockIncludeBranch == params.mode = "Block" /\ params.include /= <<>> /\ ~params.all

AllowBranch == params.mode = "Allow"

\* C1: whatever the mode, threshold, include and exclude patterns and all
\* flag, no slug of the result is both denied and allowed.
C1_Disjoint == Selected => selection.denied \cap selection.allowed = {}

C1_Witness ==
    /\ pc = "selected"
    /\ selection.denied /= {}
    /\ selection.allowed /= {}

\* What the patterns alone decide for category i, the severity left aside.
PatternSelected(i) ==
    CASE BlockAllBranch -> ~MatchesExclude(i)
      [] BlockIncludeBranch -> MatchesInclude(i) /\ ~MatchesExclude(i)
      [] AllowBranch -> MatchesInclude(i) \/ ~MatchesExclude(i)

\* C2: every selected slug (denied or allowed) is of a category whose
\* severity is at most the threshold, and the comparison is inclusive: a
\* category exactly at the threshold that the patterns select is selected.
C2_WithinSeverity ==
    Selected =>
        \A i \in CatIndexes :
            /\ SlugAt(i) \in selection.denied \cup selection.allowed
                   => SeverityOrd(SeverityAt(i)) <= SeverityOrd(params.severity)
            /\ SeverityAt(i) = params.severity /\ PatternSelected(i)
                   => SlugAt(i) \in selection.denied \cup selection.allowed

C2_Witness ==
    /\ pc = "selected"
    /\ \E i, j \in CatIndexes :
        /\ SeverityAt(i) = params.severity
        /\ SlugAt(i) \in selection.denied \cup selection.allowed
        /\ SeverityOrd(SeverityAt(j)) > SeverityOrd(params.severity)
        /\ PatternSelected(j)
        /\ SlugAt(j) \notin selection.denied \cup selection.allowed

\* C3: in Block mode with no include pattern, or with the all flag (the
\* include patterns are then ignored), denied is exactly the slugs within
\* the threshold that match no exclude pattern, and allowed is empty.
C3_BlockAll ==
    Selected /\ BlockAllBranch =>
        /\ selection.denied =
              {SlugAt(i) : i \in {k \in CatIndexes :
                                    WithinThreshold(k) /\ ~MatchesExclude(k)}}
        /\ selection.allowed = {}

\* The all flag overrides an include list that would have left a category
\* out, while an exclude pattern and the threshold each drop one.
C3_Witness ==
    /\ pc = "selected"
    /\ params.mode = "Block" /\ params.all /\ params.include /= <<>>
    /\ \E i \in CatIndexes : ~MatchesInclude(i) /\ SlugAt(i) \in selection.denied
    /\ \E i \in CatIndexes :
          (MatchesExclude(i) \/ ~WithinThreshold(i)) /\ SlugAt(i) \notin selection.denied

\* C4: in Block mode with include patterns and without the all flag, denied
\* is exactly the slugs that match an include pattern, match no exclude
\* pattern and are within the threshold, allowed is empty, and skipping an
\* included category above the threshold is no error: the run fails only
\* when nothing at all is selected.
C4_BlockInclude ==
    Selected /\ BlockIncludeBranch =>
        /\ selection.denied =
              {SlugAt(i) : i \in {k \in CatIndexes :
                    MatchesInclude(k) /\ ~MatchesExclude(k) /\ WithinThreshold(k)}}
        /\ selection.allowed = {}
        /\ pc = "error" => selection.denied = {}

\* An included category above the threshold is skipped and the run goes on
\* to build the output for the other one.
C4_Witness ==
    /\ pc = "done"
    /\ BlockIncludeBranch
    /\ \E i \in CatIndexes :
          MatchesInclude(i) /\ ~MatchesExclude(i) /\ ~WithinThreshold(i)
    /\ selection.denied /= {}

\* C5: in Allow mode a category within the threshold is allowed when it
\* matches an include pattern (even if it matches an exclude pattern too),
\* otherwise denied when it matches no exclude pattern, otherwise in neither
\* set; a category above the threshold is in neither set; and the all flag
\* changes nothing.
C5_Allow ==
    Selected /\ AllowBranch =>
        /\ \A i \in CatIndexes :
              LET inAllowed == SlugAt(i) \in selection.allowed
                  inDenied == SlugAt(i) \in selection.denied
              IN  IF ~WithinThreshold(i) THEN ~inAllowed /\ ~inDenied
                  ELSE IF MatchesInclude(i) THEN inAllowed /\ ~inDenied
                  ELSE IF ~MatchesExclude(i) THEN inDenied /\ ~inAllowed
                  ELSE ~inAllowed /\ ~inDenied
        /\ selection.denied \cup selection.allowed
              \subseteq {SlugAt(i) : i \in CatIndexes}
        /\ selection = select_categories([params EXCEPT !.all = ~@], categories)

\* A category that matches an include and an exclude pattern is allowed,
\* next to a denied one.
C5_Witness ==
    /\ pc = "selected"
    /\ AllowBranch
    /\ \E i \in CatIndexes :
          MatchesInclude(i) /\ MatchesExclude(i) /\ SlugAt(i) \in selection.allowed
    /\ selection.denied /= {}

Built == pc = "done"

OutRules == output[1].rules

OutIndexes == 1..Len(OutRules)

IsProcessDeny(r) == r.action = "deny" /\ r.priority = Some("high")

IsDomainDeny(r) == r.action = "deny" /\ r.priority = None

IsDomainAllow(r) == r.action = "allow"

\* The (category, rule) index pairs of the input.
RulePairs ==
    {ij \in CatIndexes \X (1..MaxRules) :
        ij[2] <= Len(categories[ij[1]].category.rules)}

RuleAt(ij) == categories[ij[1]].category.rules[ij[2]]

Denied(ij) == SlugAt(ij[1]) \in selection.denied

Allowed(ij) == SlugAt(ij[1]) \in selection.allowed

\* "[slug] notes", written out.
NotesOf(ij) == <<"[">> \o SlugAt(ij[1]) \o <<"]", " ">> \o RuleAt(ij).notes

\* The output rules that satisfy Kind hold each rule as often as the pairs
\* of Pairs expect it.
SameRules(Kind(_), Pairs, Expected(_)) ==
    LET got == {k \in OutIndexes : Kind(OutRules[k])}
    IN  \A r \in {OutRules[k] : k \in got} \cup {Expected(ij) : ij \in Pairs} :
            Cardinality({k \in got : OutRules[k] = r})
                = Cardinality({ij \in Pairs : Expected(ij) = r})

\* C7: in the rule list of one build_output call every process-deny rule
\* comes before every domain-deny rule, and every domain-deny rule before
\* every domain-allow rule, whatever the order of the categories.
C7_EmissionOrder ==
    Built =>
        \A a, b \in OutIndexes :
            /\ IsProcessDeny(OutRules[a]) /\ IsDomainDeny(OutRules[b]) => a < b
            /\ IsDomainDeny(OutRules[a]) /\ IsDomainAllow(OutRules[b]) => a < b
            /\ IsProcessDeny(OutRules[a]) /\ IsDomainAllow(OutRules[b]) => a < b

\* All three kinds of rule are there, and the first category of the input
\* is an allowed one whose rule is emitted last.
C7_Witness ==
    /\ Built
    /\ \E a, b, c \in OutIndexes :
          /\ IsProcessDeny(OutRules[a])
          /\ IsDomainDeny(OutRules[b])
          /\ IsDomainAllow(OutRules[c])
    /\ SlugAt(1) \in selection.allowed
    /\ categories[1].category.rules /= <<>>

ExpectedProcessDeny(ij) ==
    LsRule("deny", Some("high"), RuleAt(ij).deny_process[1], <<>>,
           Some("any"), Some("any"), None, NotesOf(ij))

\* C8 as claimed: the process-deny rules are exactly one per pair of a
\* denied category and a rule of it with a non-empty deny-process target.
C8_NonEmptyTarget ==
    Built =>
        SameRules(IsProcessDeny,
                  {ij \in RulePairs :
                      /\ Denied(ij)
                      /\ RuleAt(ij).deny_process /= None
                      /\ RuleAt(ij).deny_process[1] /= ""},
                  ExpectedProcessDeny)

\* C8, amended: the process-deny rules are exactly one per pair of a denied
\* category and a rule of it whose deny-process target is present, the
\* empty string included; each is action deny, priority high, process the
\* target, remote and protocol any, no remote domains, disabled absent,
\* notes "[slug] notes".  A rule without a target and a rule of a category
\* that is not denied yield none.
C8_PresentTarget ==
    Built =>
        SameRules(IsProcessDeny,
                  {ij \in RulePairs : Denied(ij) /\ RuleAt(ij).deny_process /= None},
                  ExpectedProcessDeny)

\* A denied category with an emitted target and a rule without one, next to
\* an allowed category whose target yields nothing.
C8_Witness ==
    /\ Built
    /\ \E ij, kl, mn \in RulePairs :
          /\ Denied(ij) /\ RuleAt(ij).deny_process /= None
          /\ Denied(kl) /\ RuleAt(kl).deny_process = None
          /\ Allowed(mn) /\ RuleAt(mn).deny_process /= None
    /\ \E k \in OutIndexes : IsProcessDeny(OutRules[k])

ExpectedDomainRule(ij) ==
    IF Denied(ij)
    THEN LsRule("deny", None, "any", RuleAt(ij).domains, None, None, None,
                NotesOf(ij))
    ELSE LsRule("allow", None, "any", RuleAt(ij).domains, None, None,
                Some(FALSE), NotesOf(ij))

IsDomainRule(r) == r.priority = None

\* C9: the domain rules are exactly one per pair of a selected category and
\* a rule of it with a non-empty domain list: deny with disabled absent for
\* a denied category, allow with disabled = false for an allowed one, both
\* without priority, remote and protocol, with process "any", the rule's
\* domains in order and notes "[slug] notes".
C9_DomainRules ==
    Built =>
        SameRules(IsDomainRule,
                  {ij \in RulePairs :
                      (Denied(ij) \/ Allowed(ij)) /\ RuleAt(ij).domains /= <<>>},
                  ExpectedDomainRule)

\* A denied and an allowed category with domains each, one list of two
\* domains, and a selected rule with no domains.
C9_Witness ==
    /\ Built
    /\ \E ij, kl, mn \in RulePairs :
          /\ Denied(ij) /\ RuleAt(ij).domains /= <<>>
          /\ Allowed(kl) /\ Len(RuleAt(kl).domains) > 1
          /\ (Denied(mn) \/ Allowed(mn)) /\ RuleAt(mn).domains = <<>>
    /\ \E a, b \in OutIndexes :
          IsDomainDeny(OutRules[a]) /\ IsDomainAllow(OutRules[b])

\* Source ij accounts for output rule k: its category is in the set the
\* rule's action names and the notes are "[slug] notes".
Accounts(k, ij) ==
    /\ IF OutRules[k].action = "deny" THEN Denied(ij) ELSE Allowed(ij)
    /\ OutRules[k].notes = NotesOf(ij)

\* Output rule k carries what source ij gives it: the target or the domains.
Carries(k, ij) ==
    IF IsProcessDeny(OutRules[k])
    THEN RuleAt(ij).deny_process = Some(OutRules[k].process)
    ELSE RuleAt(ij).domains /= <<>> /\ RuleAt(ij).domains = OutRules[k].remote_domains

\* C10 as claimed: every output rule is accounted for by exactly one
\* (category, rule) source.
C10_ExactlyOneSource ==
    Built =>
        \A k \in OutIndexes :
            Cardinality({ij \in RulePairs : Accounts(k, ij)}) = 1

DistinctNotes(i) ==
    \A j1, j2 \in 1..Len(categories[i].category.rules) :
        j1 /= j2 =>
            categories[i].category.rules[j1].notes
                /= categories[i].category.rules[j2].notes

\* C10, amended: every output rule traces back to exactly one source
\* category, in the set its action names, and to at least one rule of that
\* category, whose notes it prefixes with "[slug] " and whose target or
\* domains it carries; the rule is the only one when the notes of the
\* category's rules are pairwise distinct.
C10_OneCategorySomeRule ==
    Built =>
        \A k \in OutIndexes :
            LET sources == {ij \in RulePairs : Accounts(k, ij)}
            IN  /\ Cardinality({ij[1] : ij \in sources}) = 1
                /\ \E ij \in sources : Carries(k, ij)
                /\ (\E ij \in sources : DistinctNotes(ij[1]))
                       => Cardinality(sources) = 1

\* Two rules of one category with the same notes stand behind one output
\* rule, next to an output rule of another category.
C10_Witness ==
    /\ Built
    /\ \E k \in OutIndexes :
          Cardinality({ij \in RulePairs : Accounts(k, ij)}) > 1
    /\ \E k \in OutIndexes :
          Cardinality({ij \in RulePairs : Accounts(k, ij)}) = 1
    /\ \E a, b \in OutIndexes : OutRules[a].action /= OutRules[b].action

(***************************************************************************)
(* Properties of the entry points                                          *)
(***************************************************************************)
NoCategoriesMessages ==
    {"No categories selected. Use --include or --all to select categories.",
     "No categories selected. Use include patterns or enable 'all'."}

\* C11: a run whose selection has both sets empty ends in the "no
\* categories selected" error (main: exit status 1, generate_rules_json:
\* Err) with build_output never called and nothing written or returned;
\* a run with a slug in either set ends with the output built and no such
\* error.
C11_EmptySelectionIsError ==
    /\ Selected /\ selection.denied = {} /\ selection.allowed = {}
           => /\ output = None
              /\ pc /= "done"
              /\ ret /= None
                     => /\ ret[1].status
                               = (IF call.entry = "main" THEN "exit 1" ELSE "Err")
                        /\ ret[1].message \in NoCategoriesMessages
                        /\ ret[1].json = None
    /\ pc = "error" => selection.denied = {} /\ selection.allowed = {}
    /\ pc = "done"
           => /\ output /= None
              /\ ret /= None
              /\ ret[1].status = (IF call.entry = "main" THEN "exit 0" ELSE "Ok")
              /\ ret[1].message \notin NoCategoriesMessages
              /\ ret[1].json /= None
    /\ pc \in {"error", "done"} <=> ret /= None

\* main stops on an include pattern that matches none of the categories.
C11_Witness ==
    /\ pc = "error"
    /\ call.entry = "main"
    /\ categories /= <<>>
    /\ params.include /= <<>>
    /\ ret /= None
    /\ ret[1].status = "exit 1"

(***************************************************************************)
(* Properties of the pattern matcher                                       *)
(***************************************************************************)
Returned == pc = "returned"

\* The pattern holds none of '*', '?', '['.
PlainPattern(pattern) ==
    \A i \in 1..Len(pattern) : pattern[i] \notin {"*", "?", "["}

\* C12: matches_any_pattern is true iff matches_pattern is true for some
\* pattern of the list (so never for the empty list); matches_pattern on a
\* pattern without '*', '?', '[' is true iff the pattern equals the slug; on
\* a pattern with a metacharacter that is no valid glob it is false for
\* every slug, and it returns a boolean in every case.
C12_PatternMatching ==
    Returned =>
        /\ ret[1] \in BOOLEAN
        /\ call.entry = "matches_any_pattern" =>
              LET slug == call.args.slug
                  patterns == call.args.patterns
              IN  /\ ret[1] <=> \E i \in 1..Len(patterns) :
                                    matches_pattern(slug, patterns[i])
                  /\ patterns = <<>> => ~ret[1]
        /\ call.entry = "matches_pattern" =>
              LET slug == call.args.slug
                  pattern == call.args.pattern
              IN  /\ PlainPattern(pattern) => (ret[1] <=> pattern = slug)
                  /\ ~PlainPattern(pattern) /\ pattern \in InvalidGlobs => ~ret[1]

\* An invalid glob spelled exactly like the slug has been matched against it.
C12_Witness ==
    /\ Returned
    /\ call.entry = "matches_pattern"
    /\ call.args.pattern \in InvalidGlobs
    /\ call.args.pattern = call.args.slug
    /\ ret = Some(FALSE)

(***************************************************************************)
(* Properties of build_description                                         *)
(***************************************************************************)
DescriptionHeader ==
    <<"Generated by apple-ecocide v", "CARGO_PKG_VERSION", ".",
      " Mode: ", (IF params.mode = "Block" THEN "block" ELSE "allow"), ".",
      " Severity: ",
      (CASE params.severity = "Minimal" -> "minimal"
         [] params.severity = "Recommended" -> "recommended"
         [] params.severity = "Aggressive" -> "aggressive"), ".">>

\* list holds every slug of S once, in ascending order.
SortedListOf(list, S) ==
    /\ Len(list) = Cardinality(S)
    /\ {list[i] : i \in 1..Len(list)} = S
    /\ \A i \in 1..(Len(list) - 1) : StrLess(list[i], list[i + 1])

RECURSIVE CommaJoined(_)
CommaJoined(list) ==
    IF list = <<>> THEN <<>>
    ELSE IF Len(list) = 1 THEN list[1]
    ELSE list[1] \o <<",", " ">> \o CommaJoined(Tail(list))

CountOf(S) ==
    IF Cardinality(S) < 10 THEN <<Digit(Cardinality(S))>>
    ELSE <<Digit(Cardinality(S) \div 10), Digit(Cardinality(S) % 10)>>

\* " <label> (<n>): <slugs>" for the set S, closed by the text end.
IsClause(text, label, S, end) ==
    \E list \in [1..Cardinality(S) -> S] :
        /\ SortedListOf(list, S)
        /\ text = <<label>> \o CountOf(S) \o <<"): ">> \o CommaJoined(list) \o end

\* The description is the header, the Allowed clause iff a slug is allowed,
\* and the Denied clause closed by deniedEnd.
IsDescription(text, deniedEnd) ==
    LET h == Len(DescriptionHeader)
    IN  /\ Len(text) > h
        /\ SubSeq(text, 1, h) = DescriptionHeader
        /\ \E cut \in h..Len(text) :
              /\ cut > h <=> selection.allowed /= {}
              /\ cut > h =>
                    IsClause(SubSeq(text, h + 1, cut), " Allowed (",
                             selection.allowed, <<".">>)
              /\ IsClause(SubSeq(text, cut + 1, Len(text)), " Denied (",
                          selection.denied, deniedEnd)

\* C13: the description is the header "Generated by <tool> v<version>.
\* Mode: <mode>. Severity: <severity>.", then " Allowed (<n>): <slugs>."
\* iff the allowed set is non-empty, then always " Denied (<n>): <slugs>"
\* with no period after it; <n> is the size of the set and <slugs> the set
\* in ascending order joined by ", ".
C13_DeniedClauseOpen ==
    Built => IsDescription(output[1].description, <<>>)

\* C13 as stated: the Denied clause, too, ends with a period.
C13_EveryClauseClosed ==
    Built => IsDescription(output[1].description, <<".">>)

\* A description with both clauses, two slugs allowed and none denied.
C13_Witness ==
    /\ Built
    /\ Cardinality(selection.allowed) = 2
    /\ selection.denied = {}
    /\ IsDescription(output[1].description, <<>>)

(***************************************************************************)
(* Properties of validate_patterns                                         *)
(***************************************************************************)
Validated == pc = "returned" /\ call.entry = "validate_patterns"

\* The patterns the argument lists: the text between its commas, blanks
\* around each dropped; none when the argument is the empty string.
ListedPatterns ==
    IF call.args.patterns = <<>> THEN {}
    ELSE LET raw == call.args.patterns
             commas == {0, Len(raw) + 1} \cup {i \in 1..Len(raw) : raw[i] = ","}
         IN  {Trim(SubSeq(raw, a + 1, b - 1)) :
                 <<a, b>> \in {ab \in commas \X commas :
                                  /\ ab[1] < ab[2]
                                  /\ \A c \in commas : ~(ab[1] < c /\ c < ab[2])}}

SlugMatchesListed(i) ==
    \E pattern \in ListedPatterns : matches_pattern(SlugAt(i), pattern)

\* C14: validate_patterns reports valid = true iff the pattern list is
\* empty or some category slug matches some pattern of it, and matched =
\* the slugs that match at least one pattern, each once, in category order.
C14_ValidatePatterns ==
    Validated =>
        LET matched == ret[1].matched
        IN  /\ ret[1].valid <=>
                  \/ call.args.patterns = <<>>
                  \/ \E i \in CatIndexes : SlugMatchesListed(i)
            /\ {matched[k] : k \in 1..Len(matched)}
                  = {SlugAt(i) : i \in {j \in CatIndexes : SlugMatchesListed(j)}}
            /\ \A k, l \in 1..Len(matched) : k /= l => matched[k] /= matched[l]
            /\ \A k, l \in 1..Len(matched) :
                  k < l => \E i, j \in CatIndexes :
                               /\ i < j
                               /\ SlugAt(i) = matched[k]
                               /\ SlugAt(j) = matched[l]

\* Two categories matched, one of them by both patterns of the argument.
C14_Witness ==
    /\ Validated
    /\ Len(ret[1].matched) = 2
    /\ ret[1].valid
    /\ \E i \in CatIndexes :
          Cardinality({p \in ListedPatterns : matches_pattern(SlugAt(i), p)}) = 2

(***************************************************************************)
(* Properties of the WASM generate_rules                                   *)
(***************************************************************************)
\* The spellings of the mode argument that select Allow.
AllowSpellings == {<<"a", "l", "l", "o", "w">>, <<"A", "l", "l", "o", "w">>}

WasmSelected == Selected /\ call.entry = "generate_rules"

\* C15: generate_rules always selects with the all flag set; whenever its
\* mode argument does not spell "allow" (Block, or an invalid mode falling
\* back to Block), denied is every category within the severity threshold
\* that matches no exclude pattern and allowed is empty, whatever the
\* include argument; when it spells "allow", the categories within the
\* threshold that match an include pattern are allowed instead of denied.
C15_IncludeOnlyInAllow ==
    /\ pc /= "call" /\ call.entry = "generate_rules" => params.all
    /\ WasmSelected =>
          /\ params.mode = "Allow" <=> call.args.mode \in AllowSpellings
          /\ params.mode = "Block" <=> call.args.mode \notin AllowSpellings
          /\ params.include = <<>> <=> call.args.include = <<>>
          /\ call.args.mode \notin AllowSpellings =>
                /\ selection.denied
                      = {SlugAt(i) : i \in {j \in CatIndexes :
                                               /\ WithinThreshold(j)
                                               /\ ~MatchesExclude(j)}}
                /\ selection.allowed = {}
          /\ call.args.mode \in AllowSpellings =>
                /\ selection.allowed
                      = {SlugAt(i) : i \in {j \in CatIndexes :
                                               /\ WithinThreshold(j)
                                               /\ MatchesInclude(j)}}
                /\ selection.denied
                      = {SlugAt(i) : i \in {j \in CatIndexes :
                                               /\ WithinThreshold(j)
                                               /\ ~MatchesInclude(j)
                                               /\ ~MatchesExclude(j)}}

\* An invalid mode string fell back to Block, and a category that no
\* include pattern matches is denied all the same.
C15_Witness ==
    /\ WasmSelected
    /\ call.args.mode \notin AllowSpellings
    /\ ModeFromStr(call.args.mode) = None
    /\ call.args.include /= <<>>
    /\ \E i \in CatIndexes : MatchesInclude(i) /\ SlugAt(i) \in selection.denied
    /\ \E i \in CatIndexes : ~MatchesInclude(i) /\ SlugAt(i) \in selection.denied

====
